---------------------------- MODULE Spec2Model ----------------------------
(***************************************************************************)
(* A model of the Data_Prep scripts:                                       *)
(*   - data_analysis.py : detect_last_populated_row (the bottom-up sheet   *)
(*     scanner), analyze_workbook (the process-pool orchestrator),         *)
(*     write_report and the __main__ block;                                *)
(*   - Xlsx_to_parquet.py : tidy_letter_sheet and build_dictionary.        *)
(*                                                                         *)
(* Three groups of variables, one per subsystem; each specification moves  *)
(* one group and leaves the others at their initial value:                 *)
(*   SpecScan  the scanner applied to every sheet of a bounded family;     *)
(*   Spec      the scanner pipeline, run repeatedly on one workbook;       *)
(*   FairSpec  one run, with fair workers and a fair orchestrator;         *)
(*   SpecDict  build_dictionary applied to a bounded family of workbooks.  *)
(***************************************************************************)
EXTENDS Integers, Sequences, FiniteSets, TLC

VARIABLES
    \* --- scanner (detect_last_populated_row on one sheet) ---
    ws,              \* the worksheet handed to the scanner
    header_row,      \* the header_row argument
    scan_pc,         \* "call" | "returned"
    scan_result,     \* the dict returned, or NoResult
    \* --- pipeline (analyze_workbook, write_report, __main__) ---
    sheets,          \* xl.sheet_names: the workbook's sheet names, in order
    max_workers,     \* the MAX_WORKERS setting (0 stands for None)
    cpu_count,       \* what os.cpu_count() returns (0 stands for None)
    pc,              \* where __main__ is
    workers,         \* the pool size computed at line 85
    futs,            \* one future per submitted task
    collected,       \* the futures as_completed has yielded, in that order
    results,         \* the results list of analyze_workbook
    report,          \* the text write_report wrote in this run (<<>>: none)
    prev_report,     \* the report file an earlier run left (<<>>: none)
    \* --- dictionary builder (build_dictionary) ---
    xlsx,            \* the workbook read by pd.read_excel(sheet_name=None)
    dict_pc,         \* "call" | "returned" | "raised"
    df_all,          \* the frame build_dictionary returns
    parquet          \* the rows written to the parquet file (<<>>: no file)

scanVars == <<ws, header_row, scan_pc, scan_result>>
pipeVars == <<sheets, max_workers, cpu_count, pc, workers, futs, collected,
              results, report, prev_report>>
dictVars == <<xlsx, dict_pc, df_all, parquet>>
vars == <<scanVars, pipeVars, dictVars>>

-----------------------------------------------------------------------------
(* Bounds of the model *)

MaxRows == 3
MaxHeader == 2
MaxSheets == 2
MaxCpu == 2
MaxDictRows == 2

Max(a, b) == IF a >= b THEN a ELSE b

-----------------------------------------------------------------------------
(* Cells and sheets                                                        *)

\* A cell value as openpyxl hands it over: None, or a string.
NoneCell == [t |-> "None", s |-> ""]
Str(s) == [t |-> "str", s |-> s]

\* The cell values of the model: an empty cell, the empty string, one space,
\* a longer run of whitespace, and a text.
CellValues == {NoneCell, Str(""), Str(" "), Str("  "), Str("x")}

\* A dimension openpyxl could not determine (ws.max_row is None).
NoDimension == 0 - 1

\* The column extents of the model's sheets.
ColumnExtents == {NoDimension, 0, 1, 2}

\* ws.max_row or 0 / ws.max_column or 0
OrZero(d) == IF d = NoDimension \/ d = 0 THEN 0 ELSE d

\* The row extents of the model's sheets.
RowExtents == {NoDimension} \cup (0..MaxRows)

\* A sheet: its reported extent and the cells inside it.
Sheet(m, c, g) == [max_row |-> m, max_column |-> c, cells |-> g]

\* The grids of cells a sheet of extent m x c may hold.
Grids(m, c) == [1..OrZero(m) -> [1..OrZero(c) -> CellValues]]

-----------------------------------------------------------------------------
(* detect_last_populated_row                                               *)

\* line 60: v not in (None, "", " ")
IsBlankValue(v) == v \in {NoneCell, Str(""), Str(" ")}

\* lines 59-60: any cell of row r, columns 1..max_col, is not blank
RowPopulated(sheet, r, max_col) ==
    \E c \in 1..max_col : ~IsBlankValue(sheet.cells[r][c])

\* line 58: the (exclusive) stop of range(max_row, header_row, -1)
ScanStopAtTop(h) == 0
ScanStop(h) == h

\* lines 56-62: the bottom-up loop, from row r
RECURSIVE ScanFrom(_, _, _, _)
ScanFrom(sheet, r, h, max_col) ==
    IF r <= ScanStop(h) THEN h
    ELSE IF RowPopulated(sheet, r, max_col) THEN r
    ELSE ScanFrom(sheet, r - 1, h, max_col)

\* lines 47-74; elapsed is what the two clock readings give
DetectLastPopulatedRow(name, sheet, h, elapsed) ==
    LET max_row == OrZero(sheet.max_row)
        max_col == OrZero(sheet.max_column)
        last_populated == ScanFrom(sheet, max_row, h, max_col)
    IN  [sheet |-> name,
         header_row |-> h,
         max_row |-> max_row,
         last_populated_row |-> last_populated,
         real_row_count |-> Max(0, last_populated - h),
         elapsed_sec |-> elapsed]

NoResult == [sheet |-> "", header_row |-> 0, max_row |-> 0,
             last_populated_row |-> 0, real_row_count |-> 0 - 1,
             elapsed_sec |-> 0]

\* The clock readings of the model (thousandths of a second).
ElapsedValues == {0, 1}

ScanInit ==
    /\ \E m \in RowExtents, c \in ColumnExtents :
         \E g \in Grids(m, c) : ws = Sheet(m, c, g)
    /\ header_row \in 1..MaxHeader
    /\ scan_pc = "call"
    /\ scan_result = NoResult

ScanIdle ==
    /\ ws = Sheet(0, 0, <<>>)
    /\ header_row = 1
    /\ scan_pc = "idle"
    /\ scan_result = NoResult

\* One call of detect_last_populated_row on the sheet.
Scan ==
    /\ scan_pc = "call"
    /\ \E e \in ElapsedValues :
         scan_result' = DetectLastPopulatedRow("S", ws, header_row, e)
    /\ scan_pc' = "returned"
    /\ UNCHANGED <<ws, header_row, pipeVars, dictVars>>

-----------------------------------------------------------------------------
(* The workbook of the pipeline                                            *)

\* line 29
HEADER_ROW == 1

\* The sheet names a workbook of the model may hold.
SheetNames == {"A", "B", "C"}

Row1(a) == <<a>>

\* What each named sheet holds: A has a trailing blank row inside its
\* reported extent, B is populated through its last row, C holds its header
\* only.
SheetData(name) ==
    CASE name = "A" -> [max_row |-> 3, max_column |-> 1,
                        cells |-> <<Row1(Str("x")), Row1(Str("x")), Row1(NoneCell)>>]
      [] name = "B" -> [max_row |-> 2, max_column |-> 1,
                        cells |-> <<Row1(Str("x")), Row1(Str("x"))>>]
      [] OTHER      -> [max_row |-> 1, max_column |-> 1,
                        cells |-> <<Row1(Str("x"))>>]

\* The sequences of distinct sheet names, 1..MaxSheets long.
Workbooks ==
    { s \in UNION { [1..n -> SheetNames] : n \in 1..MaxSheets } :
        \A i, j \in DOMAIN s : i # j => s[i] # s[j] }

-----------------------------------------------------------------------------
(* analyze_workbook                                                        *)

\* line 85: workers = MAX_WORKERS or os.cpu_count() or 4
WorkersIgnoringOverride(mw, cpus) == IF cpus # 0 THEN cpus ELSE 4
WorkersFor(mw, cpus) ==
    IF mw # 0 THEN mw ELSE IF cpus # 0 THEN cpus ELSE 4

\* line 94: order = {s: i for i, s in enumerate(sheets)}
OrderOf(names, s) ==
    CHOOSE i \in DOMAIN names :
        names[i] = s /\ \A j \in DOMAIN names : names[j] = s => j <= i

\* list.sort is stable: r goes after the elements whose key is not greater
RECURSIVE InsertByOrder(_, _, _)
InsertByOrder(sorted, r, names) ==
    IF sorted = <<>> THEN <<r>>
    ELSE LET last == sorted[Len(sorted)]
         IN  IF OrderOf(names, last.sheet) <= OrderOf(names, r.sheet)
             THEN Append(sorted, r)
             ELSE Append(InsertByOrder(SubSeq(sorted, 1, Len(sorted) - 1), r, names),
                         last)

RECURSIVE SortedPrefix(_, _, _)
SortedPrefix(rs, n, names) ==
    IF n = 0 THEN <<>>
    ELSE InsertByOrder(SortedPrefix(rs, n - 1, names), rs[n], names)

RECURSIVE Reversed(_)
Reversed(s) == IF s = <<>> THEN <<>> ELSE Append(Reversed(Tail(s)), Head(s))

\* lines 94-95: results.sort(key=lambda r: order[r["sheet"]])
SortResultsOmitted(rs, names) == rs
SortResultsDescending(rs, names) == Reversed(SortedPrefix(rs, Len(rs), names))
SortResults(rs, names) == SortedPrefix(rs, Len(rs), names)

Finished(f) == f.state \in {"done", "failed"}
Running == { i \in DOMAIN futs : futs[i].state = "running" }

\* line 91: fut.result() returns the task's result or raises its exception
AfterResultSwallowed(f) == "collect"
AfterResult(f) == IF f.state = "failed" THEN "shutdown" ELSE "collect"

\* line 88: leaving the with block is shutdown(wait=True), which returns once
\* every submitted task has run
PoolExitNoWait(fs) == TRUE
PoolExit(fs) == \A i \in DOMAIN fs : Finished(fs[i])

\* lines 78-89: open the workbook, size the pool, submit one task per sheet
Submit ==
    /\ pc = "start"
    /\ workers' = WorkersFor(max_workers, cpu_count)
    /\ futs' = [i \in DOMAIN sheets |->
                  [sheet |-> sheets[i], state |-> "pending", result |-> NoResult]]
    /\ pc' = "collect"
    /\ UNCHANGED <<scanVars, dictVars, sheets, max_workers, cpu_count, collected, results, report,
                   prev_report>>

\* line 78: the workbook cannot be opened
OpenFails ==
    /\ pc = "start"
    /\ pc' = "raised"
    /\ UNCHANGED <<scanVars, dictVars, sheets, max_workers, cpu_count, workers, futs, collected,
                   results, report, prev_report>>

\* The pool hands the oldest pending task to a free worker process.
StartTask(i) ==
    /\ futs[i].state = "pending"
    /\ \A j \in DOMAIN futs : j < i => futs[j].state # "pending"
    /\ Cardinality(Running) < workers
    /\ futs' = [futs EXCEPT ![i].state = "running"]
    /\ UNCHANGED <<scanVars, dictVars, sheets, max_workers, cpu_count, pc, workers, collected,
                   results, report, prev_report>>

\* A worker finishes detect_last_populated_row(path, s, HEADER_ROW).
FinishTask(i) ==
    /\ futs[i].state = "running"
    /\ \E e \in ElapsedValues :
         futs' = [futs EXCEPT ![i].state = "done",
                              ![i].result = DetectLastPopulatedRow(
                                  sheets[i], SheetData(sheets[i]), HEADER_ROW, e)]
    /\ UNCHANGED <<scanVars, dictVars, sheets, max_workers, cpu_count, pc, workers, collected,
                   results, report, prev_report>>

\* A worker's call raises (the workbook or the sheet cannot be read).
FailTask(i) ==
    /\ futs[i].state = "running"
    /\ futs' = [futs EXCEPT ![i].state = "failed"]
    /\ UNCHANGED <<scanVars, dictVars, sheets, max_workers, cpu_count, pc, workers, collected,
                   results, report, prev_report>>

\* lines 90-91: as_completed yields a finished future; its result is appended
\* or its exception leaves the loop
Collect(i) ==
    /\ pc = "collect"
    /\ i \in DOMAIN futs
    /\ \A k \in DOMAIN collected : collected[k] # i
    /\ Finished(futs[i])
    /\ collected' = Append(collected, i)
    /\ results' = IF futs[i].state = "done"
                  THEN Append(results, futs[i].result) ELSE results
    /\ pc' = AfterResult(futs[i])
    /\ UNCHANGED <<scanVars, dictVars, sheets, max_workers, cpu_count, workers, futs, report,
                   prev_report>>

\* lines 92-96: the loop is over; leave the pool, sort, return
Return ==
    /\ pc = "collect"
    /\ Len(collected) = Len(futs)
    /\ PoolExit(futs)
    /\ results' = SortResults(results, sheets)
    /\ pc' = "returned"
    /\ UNCHANGED <<scanVars, dictVars, sheets, max_workers, cpu_count, workers, futs, collected,
                   report, prev_report>>

\* line 88: the exception leaves the with block once the pool has shut down
Raise ==
    /\ pc = "shutdown"
    /\ PoolExit(futs)
    /\ pc' = "raised"
    /\ UNCHANGED <<scanVars, dictVars, sheets, max_workers, cpu_count, workers, futs, collected,
                   results, report, prev_report>>

-----------------------------------------------------------------------------
(* write_report and __main__                                               *)

\* How Python prints round(seconds, 3), for the clock readings of the model.
FormatElapsed(e) == IF e = 0 THEN "0.0" ELSE "0.00" \o ToString(e)

\* lines 103-109: the lines of one sheet's block
Block(r) ==
    << "## Sheet: **" \o r.sheet \o "**",
       "- Header row: **" \o ToString(r.header_row) \o "**",
       "- Excel max_row: **" \o ToString(r.max_row) \o "**",
       "- Last populated row: **" \o ToString(r.last_populated_row) \o "**",
       "- Real row count: **" \o ToString(r.real_row_count) \o "**",
       "- Elapsed: " \o FormatElapsed(r.elapsed_sec) \o " s",
       "" >>

RECURSIVE Blocks(_)
Blocks(rs) == IF rs = <<>> THEN <<>> ELSE Block(Head(rs)) \o Blocks(Tail(rs))

\* lines 100-112: the lines that, joined by "\n", are the text of the file
RenderReport(rs) ==
    <<"# Real row count analysis: Data_Base.xlsx\n">> \o Blocks(rs)

\* line 120
WriteReport ==
    /\ pc = "returned"
    /\ report' = RenderReport(results)
    /\ pc' = "written"
    /\ UNCHANGED <<scanVars, dictVars, sheets, max_workers, cpu_count, workers, futs, collected,
                   results, prev_report>>

\* The script is started again on the same workbook; the report file of the
\* last run that wrote one is still there.
Rerun ==
    /\ pc \in {"written", "raised"}
    /\ prev_report' = IF pc = "written" THEN report ELSE prev_report
    /\ pc' = "start"
    /\ workers' = 0
    /\ futs' = <<>>
    /\ collected' = <<>>
    /\ results' = <<>>
    /\ report' = <<>>
    /\ UNCHANGED <<scanVars, dictVars, sheets, max_workers, cpu_count>>

PipeInit ==
    /\ sheets \in Workbooks
    /\ max_workers \in 0..MaxCpu
    /\ cpu_count \in 0..MaxCpu
    /\ pc = "start"
    /\ workers = 0
    /\ futs = <<>>
    /\ collected = <<>>
    /\ results = <<>>
    /\ report = <<>>
    /\ prev_report = <<>>

PipeIdle ==
    /\ sheets = <<>>
    /\ max_workers = 0
    /\ cpu_count = 0
    /\ pc = "idle"
    /\ workers = 0
    /\ futs = <<>>
    /\ collected = <<>>
    /\ results = <<>>
    /\ report = <<>>
    /\ prev_report = <<>>

-----------------------------------------------------------------------------
(* Xlsx_to_parquet.py: tidy_letter_sheet and build_dictionary              *)
(* A sheet of the taxonomy workbook is its name and its rows; a row is its *)
(* first two columns, the code and the description, as normalize_cell      *)
(* leaves them. A code is the sequence of its characters. The output rows  *)
(* carry hepa_id and the columns the sort reads; level1_name, comments and *)
(* the columns derived from these (level, code, name, path) are left out.  *)

DictSheetNames == {"Level 1", "A", "B"}

DictCodes == { <<"A", "A">>, <<"A", "B">>, <<"B", "A">> }
DictRowValues == [code : DictCodes, name : {"x", "y"}]
DictRowSeqs == UNION { [1..n -> DictRowValues] : n \in 0..MaxDictRows }

DictNameSeqs ==
    { s \in UNION { [1..n -> DictSheetNames] : n \in 1..Cardinality(DictSheetNames) } :
        \A i, j \in DOMAIN s : i # j => s[i] # s[j] }

\* The code point of a character.
Ord(ch) == CASE ch = "1" -> 49 [] ch = "A" -> 65 [] ch = "B" -> 66

\* [A-Z] on one character
IsUpper(ch) == ch \in {"A", "B"}

\* lines 38-40 and 90: len(name) == 1 and name.isalpha()
IsLetterSheet(name) == name \in {"A", "B"}

\* Python's < on str: lexicographic by code point
RECURSIVE StrLess(_, _)
StrLess(a, b) ==
    IF b = <<>> THEN FALSE
    ELSE IF a = <<>> THEN TRUE
    ELSE IF Ord(Head(a)) # Ord(Head(b)) THEN Ord(Head(a)) < Ord(Head(b))
    ELSE StrLess(Tail(a), Tail(b))

\* line 51: str.match(rf"{parent}[A-Z]{{1,3}}"), anchored at the start only
CodeMatches(parent, code) ==
    /\ Len(code) >= 2
    /\ code[1] = parent
    /\ IsUpper(code[2])

\* lines 37-73: the rows of one letter sheet whose code matches
RECURSIVE TidyRows(_, _)
TidyRows(parent, rows) ==
    IF rows = <<>> THEN <<>>
    ELSE LET r == Head(rows)
             rest == TidyRows(parent, Tail(rows))
         IN  IF CodeMatches(parent, r.code)
             THEN <<[level1_code |-> parent, level2_code |-> r.code,
                     level2_name |-> r.name]>> \o rest
             ELSE rest

TidyLetterSheet(sh) ==
    IF ~IsLetterSheet(sh.name) THEN <<>> ELSE TidyRows(sh.name, sh.rows)

\* lines 86-91: the letter sheets, in the workbook's order
LetterSheets(wb) == SelectSeq(wb, LAMBDA sh : sh.name # "Level 1" /\ IsLetterSheet(sh.name))

\* line 93: pd.concat(pieces, ignore_index=True)
RECURSIVE Concat(_)
Concat(shs) ==
    IF shs = <<>> THEN <<>> ELSE TidyLetterSheet(Head(shs)) \o Concat(Tail(shs))

\* line 110: the order of sort_values(["level1_code", "level2_code"])
KeyLess(a, b) ==
    \/ Ord(a.level1_code) < Ord(b.level1_code)
    \/ /\ a.level1_code = b.level1_code
       /\ StrLess(a.level2_code, b.level2_code)

\* line 110: kind="stable": a row stays before a later row of an equal key
StaysBeforeStrictly(a, b) == KeyLess(a, b)
StaysBefore(a, b) == ~KeyLess(b, a)

RECURSIVE InsertByKey(_, _)
InsertByKey(sorted, r) ==
    IF sorted = <<>> THEN <<r>>
    ELSE LET last == sorted[Len(sorted)]
         IN  IF StaysBefore(last, r) THEN Append(sorted, r)
             ELSE Append(InsertByKey(SubSeq(sorted, 1, Len(sorted) - 1), r), last)

RECURSIVE SortValues(_, _)
SortValues(rows, n) ==
    IF n = 0 THEN <<>> ELSE InsertByKey(SortValues(rows, n - 1), rows[n])

\* line 111: df_all.insert(0, "hepa_id", df_all.index + 1)
HepaId(i) == i

\* lines 110-111: sort, reset the index, number the rows
WithHepaId(rows) ==
    LET sorted == SortValues(rows, Len(rows))
    IN  [i \in DOMAIN sorted |->
           [hepa_id |-> HepaId(i),
            level1_code |-> sorted[i].level1_code,
            level2_code |-> sorted[i].level2_code,
            level2_name |-> sorted[i].level2_name]]

HasLevel1(wb) == \E i \in DOMAIN wb : wb[i].name = "Level 1"

NoFile == [written |-> FALSE, rows |-> <<>>]

\* lines 76-115, every sheet read and the frame written
BuildDictionary ==
    /\ dict_pc = "call"
    /\ HasLevel1(xlsx)
    /\ LetterSheets(xlsx) # <<>>
    /\ df_all' = WithHepaId(Concat(LetterSheets(xlsx)))
    /\ parquet' = [written |-> TRUE, rows |-> df_all']
    /\ dict_pc' = "returned"
    /\ UNCHANGED <<xlsx, scanVars, pipeVars>>

\* lines 80-82: no 'Level 1' sheet
RaiseNoLevel1 ==
    /\ dict_pc = "call"
    /\ ~HasLevel1(xlsx)
    /\ dict_pc' = "raised"
    /\ UNCHANGED <<xlsx, df_all, parquet, scanVars, pipeVars>>

\* line 93: pd.concat raises on an empty list of pieces
RaiseNoPieces ==
    /\ dict_pc = "call"
    /\ HasLevel1(xlsx)
    /\ LetterSheets(xlsx) = <<>>
    /\ dict_pc' = "raised"
    /\ UNCHANGED <<xlsx, df_all, parquet, scanVars, pipeVars>>

DictInit ==
    /\ \E names \in DictNameSeqs, rowsA \in DictRowSeqs, rowsB \in DictRowSeqs :
         /\ (\A i \in DOMAIN names : names[i] # "A") => rowsA = <<>>
         /\ (\A i \in DOMAIN names : names[i] # "B") => rowsB = <<>>
         /\ xlsx = [i \in DOMAIN names |->
                      [name |-> names[i],
                       rows |-> IF names[i] = "A" THEN rowsA
                                ELSE IF names[i] = "B" THEN rowsB ELSE <<>>]]
    /\ dict_pc = "call"
    /\ df_all = <<>>
    /\ parquet = NoFile

DictIdle ==
    /\ xlsx = <<>>
    /\ dict_pc = "idle"
    /\ df_all = <<>>
    /\ parquet = NoFile

-----------------------------------------------------------------------------
(* Specifications                                                          *)

Init == PipeInit /\ ScanIdle /\ DictIdle

TaskStep == \E i \in DOMAIN futs : StartTask(i) \/ FinishTask(i) \/ FailTask(i)
CollectStep == \E i \in DOMAIN futs : Collect(i)

\* One run of the script.
NextRun ==
    \/ Submit
    \/ OpenFails
    \/ \E i \in DOMAIN futs : StartTask(i)
    \/ \E i \in DOMAIN futs : FinishTask(i)
    \/ \E i \in DOMAIN futs : FailTask(i)
    \/ \E i \in DOMAIN futs : Collect(i)
    \/ Return
    \/ Raise
    \/ WriteReport

Next ==
    \/ NextRun
    \/ Rerun

Spec == Init /\ [][Next]_vars

InitScan == ScanInit /\ PipeIdle /\ DictIdle
NextScan == Scan
SpecScan == InitScan /\ [][NextScan]_vars

InitDict == DictInit /\ PipeIdle /\ ScanIdle
NextDict ==
    \/ BuildDictionary
    \/ RaiseNoLevel1
    \/ RaiseNoPieces
SpecDict == InitDict /\ [][NextDict]_vars

\* One run of the script, in which the worker processes keep running their
\* tasks and the orchestrator keeps running.
FairSpec ==
    /\ Init
    /\ [][NextRun]_vars
    /\ WF_vars(TaskStep)
    /\ WF_vars(Submit \/ OpenFails)
    /\ WF_vars(CollectStep)
    /\ WF_vars(Return)
    /\ WF_vars(Raise)
    /\ WF_vars(WriteReport)

-----------------------------------------------------------------------------
(* Properties of the scanner (SpecScan)                                    *)

\* "empty/blank/whitespace": None, the empty string, or whitespace only
IsWhitespaceOnly(v) == v \in {NoneCell, Str(""), Str(" "), Str("  ")}

\* Every cell of row r, columns 1..max_column, is empty, blank or whitespace.
RowIsBlank(sheet, r) ==
    \A c \in 1..OrZero(sheet.max_column) : IsWhitespaceOnly(sheet.cells[r][c])

Returned == scan_pc = "returned"
ReportedMaxRow == OrZero(ws.max_row)

\* The last n rows of the sheet are entirely blank and row M - n holds a
\* non-blank cell.
TrailingBlankRows(n) ==
    /\ n <= ReportedMaxRow
    /\ \A r \in (ReportedMaxRow - n + 1)..ReportedMaxRow : RowIsBlank(ws, r)
    /\ ReportedMaxRow - n >= 1
    /\ ~RowIsBlank(ws, ReportedMaxRow - n)

\* C2: when the last N rows of the sheet are entirely blank and row M - N,
\* a row not above the header row, holds a non-blank cell, the scanner
\* returns last_populated_row = M - N and real_row_count = (M - N) - H; for
\* N = 0, last_populated_row = M.
C2_TrailingBlankRowsSkipped ==
    Returned =>
        \A n \in 0..ReportedMaxRow :
            (TrailingBlankRows(n) /\ ReportedMaxRow - n >= header_row) =>
                /\ scan_result.last_populated_row = ReportedMaxRow - n
                /\ scan_result.real_row_count = (ReportedMaxRow - n) - header_row

\* C3: a row reported as the last populated row (below the header row) holds
\* a cell that is not None, not empty and not whitespace only, and every row
\* below it is blank.
C3_ReportedRowIsPopulated ==
    Returned =>
        /\ scan_result.last_populated_row > header_row =>
               ~RowIsBlank(ws, scan_result.last_populated_row)
        /\ \A r \in (scan_result.last_populated_row + 1)..ReportedMaxRow :
               r > header_row => RowIsBlank(ws, r)

\* C6: when no row below the header row is populated (also when the reported
\* max row is 0, missing or not greater than header_row), the scanner returns
\* last_populated_row = header_row and real_row_count = 0.
C6_EmptySheetGivesHeaderRow ==
    (Returned /\ \A r \in (header_row + 1)..ReportedMaxRow : RowIsBlank(ws, r)) =>
        /\ scan_result.last_populated_row = header_row
        /\ scan_result.real_row_count = 0

\* The sheet with every row at or above the header row emptied.
BlankedToHeader(sheet, h) ==
    [sheet EXCEPT !.cells =
        [r \in DOMAIN sheet.cells |->
            IF r <= h THEN [c \in DOMAIN sheet.cells[r] |-> NoneCell]
            ELSE sheet.cells[r]]]

\* C9: header_row <= last_populated_row <= max(max_row, header_row),
\* real_row_count = last_populated_row - header_row >= 0, and the result does
\* not depend on what the rows at or above the header row hold.
C9_ResultWithinBounds ==
    Returned =>
        /\ scan_result.header_row = header_row
        /\ scan_result.max_row = ReportedMaxRow
        /\ header_row <= scan_result.last_populated_row
        /\ scan_result.last_populated_row <= Max(ReportedMaxRow, header_row)
        /\ scan_result.real_row_count = scan_result.last_populated_row - header_row
        /\ scan_result.real_row_count >= 0
        /\ scan_result = DetectLastPopulatedRow(
               scan_result.sheet, BlankedToHeader(ws, header_row), header_row,
               scan_result.elapsed_sec)

\* A sheet whose rows at and above the header row hold text, with blank rows
\* only below it: the scan stopped at the header row.
C9_Witness ==
    /\ Returned
    /\ header_row = 2
    /\ ReportedMaxRow >= 3
    /\ OrZero(ws.max_column) >= 1
    /\ ws.cells[1][1] = Str("x")
    /\ ws.cells[2][1] = Str("x")
    /\ scan_result.last_populated_row = header_row
    /\ scan_result.real_row_count = 0

-----------------------------------------------------------------------------
(* Properties of the pipeline (Spec, FairSpec)                             *)

AllSucceeded == futs # <<>> /\ \A i \in DOMAIN futs : futs[i].state = "done"
SomeFailed == \E i \in DOMAIN futs : futs[i].state = "failed"

\* The lines of a report that name a sheet, in the order they are written:
\* the title is line 1 and every block has seven lines.
BlockCount(text) == (Len(text) - 1) \div 7
SheetLine(text, k) == text[2 + 7 * (k - 1)]
IsElapsedLine(i) == i > 1 /\ (i - 1) % 7 = 6

\* C1: when all tasks have succeeded, whatever order they completed in, the
\* list analyze_workbook returns holds exactly one result per sheet, in the
\* workbook's sheet order, and so do the blocks write_report writes.
C1_SheetOrderRestored ==
    /\ pc \in {"returned", "written"} =>
          /\ Len(results) = Len(sheets)
          /\ \A i \in DOMAIN sheets : results[i].sheet = sheets[i]
    /\ pc = "written" =>
          /\ Len(report) = 1 + 7 * Len(sheets)
          /\ \A k \in DOMAIN sheets :
                SheetLine(report, k) = "## Sheet: **" \o sheets[k] \o "**"

\* A report written after the tasks were collected out of sheet order.
C1_Witness ==
    /\ pc = "written"
    /\ Len(sheets) >= 2
    /\ \E i, j \in DOMAIN collected : i < j /\ collected[i] > collected[j]

\* C4 as stated: the report a run writes is the same text as the report an
\* earlier run on the same workbook left.
C4_ReportsByteIdentical ==
    (pc = "written" /\ prev_report # <<>>) => report = prev_report

\* A report without the values of its Elapsed lines.
WithoutElapsed(text) ==
    [i \in DOMAIN text |-> IF IsElapsedLine(i) THEN "- Elapsed:" ELSE text[i]]

\* C4, amended: the report a run writes differs from the report an earlier
\* run on the same workbook left in nothing but the values of the Elapsed
\* lines.
C4_ReportsIdenticalButElapsed ==
    (pc = "written" /\ prev_report # <<>>) =>
        WithoutElapsed(report) = WithoutElapsed(prev_report)

\* Two runs of a workbook of two sheets, collected in different orders, whose
\* reports differ.
C4_Witness ==
    /\ pc = "written"
    /\ prev_report # <<>>
    /\ report # prev_report
    /\ Len(sheets) >= 2
    /\ collected[1] # 1

\* C5: a report is written in a run only after every sheet's task has
\* succeeded and holds a block for every sheet; once a task has failed, or
\* the workbook could not be opened, analyze_workbook does not return and no
\* report is written.
C5_NoPartialReport ==
    /\ (pc = "written" \/ report # <<>>) =>
          /\ pc = "written"
          /\ AllSucceeded
          /\ Len(futs) = Len(sheets)
          /\ BlockCount(report) = Len(sheets)
    /\ SomeFailed => pc \in {"collect", "shutdown", "raised"} /\ report = <<>>
    /\ (pc = "raised" /\ futs = <<>>) => report = <<>>
    /\ pc = "raised" => (futs = <<>> \/ SomeFailed)

\* A run that aborted although one sheet's scan succeeded and was collected.
C5_Witness ==
    /\ pc = "raised"
    /\ SomeFailed
    /\ results # <<>>
    /\ report = <<>>

Active(f) == f.state \in {"pending", "running"}

\* C7: analyze_workbook has neither returned nor raised while a submitted
\* task is pending or running, and once the tasks are submitted it eventually
\* returns or raises.
C7_BlocksUntilTasksComplete ==
    /\ [](pc \in {"returned", "written", "raised"} =>
             \A i \in DOMAIN futs : ~Active(futs[i]))
    /\ (pc \in {"collect", "shutdown"}) ~> (pc \in {"returned", "raised"})

\* The exception of a failed task is on its way out of the with block while
\* another task is still running.
C7_Witness ==
    /\ pc = "shutdown"
    /\ \E i \in DOMAIN futs : futs[i].state = "running"

\* The tasks running are at most the pool size, which is MAX_WORKERS when it
\* is set and the CPU count otherwise (when it is known), and there is
\* exactly one task per sheet.
C8_PoolBounded ==
    futs # <<>> =>
        /\ max_workers # 0 => workers = max_workers
        /\ (max_workers = 0 /\ cpu_count # 0) => workers = cpu_count
        /\ Cardinality(Running) <= workers
        /\ Len(futs) = Len(sheets)
        /\ \A i \in DOMAIN futs : futs[i].sheet = sheets[i]

\* A step of a task changes nothing but that task's own future.
C8_TasksIndependent ==
    (pc' = pc /\ futs' # futs) =>
        /\ \E i \in DOMAIN futs :
              \A j \in DOMAIN futs : j # i => futs'[j] = futs[j]
        /\ UNCHANGED <<sheets, workers, collected, results, report, prev_report>>

-----------------------------------------------------------------------------
(* Properties of build_dictionary (SpecDict)                               *)

\* An output row without its hepa_id: the row as it was before the sort.
InputRow(o) == [level1_code |-> o.level1_code, level2_code |-> o.level2_code,
                level2_name |-> o.level2_name]

SameKey(a, b) == a.level1_code = b.level1_code /\ a.level2_code = b.level2_code

\* The rows of the letter sheets, sheet by sheet and row by row.
InputRows == Concat(LetterSheets(xlsx))

\* C10: the hepa_id column holds 1..n in row order; (level1_code,
\* level2_code) is non-decreasing along it; the rows of one key are in their
\* sheet/row input order; the frame returned is the frame written; and with
\* no 'Level 1' sheet the call raises and writes no parquet file.
C10_StableSurrogateKey ==
    /\ dict_pc = "returned" =>
          /\ parquet = [written |-> TRUE, rows |-> df_all]
          /\ Len(df_all) = Len(InputRows)
          /\ \A i \in DOMAIN df_all : df_all[i].hepa_id = i
          /\ \A i, j \in DOMAIN df_all :
                i < j => ~KeyLess(df_all[j], df_all[i])
          /\ \A k \in DOMAIN df_all :
                SelectSeq([i \in DOMAIN df_all |-> InputRow(df_all[i])],
                          LAMBDA r : SameKey(r, df_all[k]))
                  = SelectSeq(InputRows, LAMBDA r : SameKey(r, df_all[k]))
    /\ (dict_pc # "call" /\ ~HasLevel1(xlsx)) =>
          dict_pc = "raised" /\ parquet = NoFile

\* Two sheets out of letter order, and two rows of one key that the sort
\* moves but keeps in their input order.
C10_Witness ==
    /\ dict_pc = "returned"
    /\ Len(df_all) >= 3
    /\ \E i \in DOMAIN df_all :
          /\ i + 1 \in DOMAIN df_all
          /\ SameKey(df_all[i], df_all[i + 1])
          /\ df_all[i].level2_name # df_all[i + 1].level2_name
    /\ [i \in DOMAIN df_all |-> InputRow(df_all[i])] # InputRows

=============================================================================
